---- MODULE Spec2Model ----
(***************************************************************************)
(* A model of ppt_gen_2.py: the upload extractor, the prompt builder, the  *)
(* Gemini response parser with its fallback, the PDF story assembly and    *)
(* the Streamlit session around them.                                      *)
(*                                                                         *)
(* Python values are records [t, s, a]: t is the dynamic type ("str",      *)
(* "num", "null", "arr", "obj"), s the text of a str or num, a the items   *)
(* of a list or the members of a dict (a member is ["mem", key, <<v>>]).   *)
(* A response text is a sequence of tokens [k, v]; one token stands for    *)
(* the characters that spell it.                                           *)
(***************************************************************************)
EXTENDS Integers, Sequences, FiniteSets, TLC

\* ------------------------------------------------------------------------
\* Bounds of the model
\* ------------------------------------------------------------------------

\* Longest `slides` array the modelled backend answers with.
MaxSlides == 2

\* Most temporary image files that may exist at once (leaked ones included).
MaxTmp == 2

\* Document texts are taken at every length within Margin of the cut.
Margin == 3

\* ------------------------------------------------------------------------
\* Python values
\* ------------------------------------------------------------------------

Str(s) == [t |-> "str", s |-> s, a |-> <<>>]

Num(s) == [t |-> "num", s |-> s, a |-> <<>>]

None == [t |-> "null", s |-> "", a |-> <<>>]

List(items) == [t |-> "arr", s |-> "", a |-> items]

Mem(key, v) == [t |-> "mem", s |-> key, a |-> <<v>>]

Dict(members) == [t |-> "obj", s |-> "", a |-> members]

\* bool(v): None, "", 0, [] and {} are falsy.
Truthy(v) ==
    CASE v.t = "null" -> FALSE
      [] v.t = "str" -> v.s # ""
      [] v.t = "num" -> v.s # "0"
      [] OTHER -> v.a # <<>>

\* d.get(key, default): the last member spelled `key` wins, as in a dict
\* built by json.loads from a text with a repeated key.
DictGet(d, key, default) ==
    LET hits == {i \in 1..Len(d.a) : d.a[i].s = key}
    IN  IF hits = {} THEN default
        ELSE d.a[CHOOSE i \in hits : \A j \in hits : j <= i].a[1]

\* The characters of a str. Every str of the model is at most one character
\* long where it is iterated.
Chars(s) == IF s = "" THEN <<>> ELSE <<Str(s)>>

\* `for x in v`: the items of a list, the keys of a dict, the characters of
\* a str; None and numbers raise TypeError.
Iterable(v) == v.t \in {"arr", "obj", "str"}

Items(v) ==
    CASE v.t = "arr" -> v.a
      [] v.t = "obj" -> [i \in 1..Len(v.a) |-> Str(v.a[i].s)]
      [] v.t = "str" -> Chars(v.s)
      [] OTHER -> <<>>

\* ------------------------------------------------------------------------
\* Texts
\* ------------------------------------------------------------------------

Tok(k, v) == [k |-> k, v |-> v]

LBrace == Tok("punct", "{")

RBrace == Tok("punct", "}")

LBrack == Tok("punct", "[")

RBrack == Tok("punct", "]")

Comma == Tok("punct", ",")

Colon == Tok("punct", ":")

\* One token for three backquotes.
Fence == Tok("fence", "FENCE")

JsonWord == Tok("word", "json")

Ws == Tok("ws", " ")

Word(w) == Tok("word", w)

\* The opening fence: three backquotes and the word json.
FenceOpen == <<Fence, JsonWord>>

\* The closing fence: three backquotes.
FenceClose == <<Fence>>

Min(x, y) == IF x <= y THEN x ELSE y

\* text[lo:hi] for 0 <= lo, 0 <= hi.
Slice(text, lo, hi) == SubSeq(text, lo + 1, Min(hi, Len(text)))

Matches(text, pat, i) ==
    /\ i + Len(pat) <= Len(text)
    /\ \A j \in 1..Len(pat) : text[i + j] = pat[j]

\* text.find(pat): the first offset of pat, -1 when there is none.
Find(text, pat) ==
    LET at == {i \in 0..Len(text) : Matches(text, pat, i)}
    IN  IF at = {} THEN -1 ELSE CHOOSE i \in at : \A j \in at : i <= j

\* text.rfind(pat): the last offset of pat, -1 when there is none.
RFind(text, pat) ==
    LET at == {i \in 0..Len(text) : Matches(text, pat, i)}
    IN  IF at = {} THEN -1 ELSE CHOOSE i \in at : \A j \in at : j <= i

\* text.strip(): from the first token that is no whitespace to the last.
Strip(text) ==
    IF \A i \in 1..Len(text) : text[i].k = "ws" THEN <<>>
    ELSE SubSeq(text,
                CHOOSE i \in 1..Len(text) :
                    text[i].k # "ws" /\ \A j \in 1..(i - 1) : text[j].k = "ws",
                CHOOSE i \in 1..Len(text) :
                    text[i].k # "ws" /\ \A j \in (i + 1)..Len(text) : text[j].k = "ws")

\* ------------------------------------------------------------------------
\* json.loads
\* ------------------------------------------------------------------------

\* A decoding: the value read, or a failure (JSONDecodeError).
Parsed(v) == [ok |-> TRUE, val |-> v]

ParseError == [ok |-> FALSE, val |-> None]

\* Whitespace between the tokens of a JSON text means nothing.
IsSolid(tok) == tok.k # "ws"

Opens == {LBrace, LBrack}

Closes == {RBrace, RBrack}

\* How many brackets stand open in front of place k.
DepthAt(T, k) ==
    Cardinality({m \in 1..(k - 1) : T[m] \in Opens})
        - Cardinality({m \in 1..(k - 1) : T[m] \in Closes})

\* The place of the bracket that closes the one at place i; 0 when none does.
MatchOf(T, i) ==
    LET c == {j \in (i + 1)..Len(T) : T[j] \in Closes /\ DepthAt(T, j + 1) = DepthAt(T, i)}
    IN  IF c = {} THEN 0 ELSE CHOOSE j \in c : \A x \in c : j <= x

\* The k-th smallest member of a set of numbers.
Kth(S, k) == CHOOSE x \in S : Cardinality({y \in S : y <= x}) = k

\* The commas that separate the items of the bracket opened at place i and
\* closed at place j.
CommasOf(T, i, j) ==
    {k \in (i + 1)..(j - 1) : T[k] = Comma /\ DepthAt(T, k) = DepthAt(T, i) + 1}

\* The JSON value spelled by places i..j of T: a string, a number, null, an
\* array [v, ...] or an object {"k": v, ...}; anything else is an error.
RECURSIVE ParseSpan(_, _, _)
ParseSpan(T, i, j) ==
    IF i > j THEN ParseError
    ELSE IF i = j
    THEN CASE T[i].k = "str" -> Parsed(Str(T[i].v))
           [] T[i].k = "num" -> Parsed(Num(T[i].v))
           [] T[i].k = "null" -> Parsed(None)
           [] OTHER -> ParseError
    ELSE IF ~(\/ T[i] = LBrack /\ T[j] = RBrack
              \/ T[i] = LBrace /\ T[j] = RBrace) THEN ParseError
    ELSE IF MatchOf(T, i) # j THEN ParseError
    ELSE IF j = i + 1 THEN Parsed(IF T[i] = LBrack THEN List(<<>>) ELSE Dict(<<>>))
    ELSE LET C == CommasOf(T, i, j)
             m == Cardinality(C) + 1
             lo(n) == (IF n = 1 THEN i ELSE Kth(C, n - 1)) + 1
             hi(n) == (IF n = m THEN j ELSE Kth(C, n)) - 1
             keyed(n) == lo(n) + 1 <= hi(n) /\ T[lo(n)].k = "str" /\ T[lo(n) + 1] = Colon
             parts == {<<n, IF T[i] = LBrack THEN ParseSpan(T, lo(n), hi(n))
                            ELSE IF keyed(n) THEN ParseSpan(T, lo(n) + 2, hi(n))
                            ELSE ParseError>> : n \in 1..m}
             part(n) == (CHOOSE x \in parts : x[1] = n)[2]
         IN  IF \E x \in parts : ~x[2].ok THEN ParseError
             ELSE IF T[i] = LBrack
             THEN Parsed(List([n \in 1..m |-> part(n).val]))
             ELSE Parsed(Dict([n \in 1..m |-> Mem(T[lo(n)].v, part(n).val)]))

\* json.loads(text): the one value the text spells; a text that spells none,
\* or more than one, raises JSONDecodeError (ok = FALSE).
json_loads(text) ==
    ParseSpan(SelectSeq(text, IsSolid), 1, Len(SelectSeq(text, IsSolid)))

\* ------------------------------------------------------------------------
\* Data models
\* ------------------------------------------------------------------------

\* SlideContent(...) with __post_init__: only image_urls and reference_urls
\* that are None become [].
SlideContent(title, bullet_points, additional_info, image_urls, reference_urls) ==
    [title |-> title,
     bullet_points |-> bullet_points,
     additional_info |-> additional_info,
     image_urls |-> IF image_urls = None THEN List(<<>>) ELSE image_urls,
     reference_urls |-> IF reference_urls = None THEN List(<<>>) ELSE reference_urls]

PresentationData(slides, topic, generated_at) ==
    [slides |-> slides, topic |-> topic, generated_at |-> generated_at]

\* ------------------------------------------------------------------------
\* AIContentGenerator
\* ------------------------------------------------------------------------

\* The messages st.error shows.
ErrNoKey == "Please provide a valid Gemini API key"

ErrNoJson == "Could not parse JSON from AI response"

ErrGemini == "Error generating content with Gemini"

ErrParsing == "Error parsing AI response"

\* The text after the opening fence and before the last closing fence, when
\* that one stands after the opening one; else the text as it is.
StripFence(response_text) ==
    LET json_start == Find(response_text, FenceOpen) + Len(FenceOpen)
        json_end == RFind(response_text, FenceClose)
    IN  IF Find(response_text, FenceOpen) >= 0 /\ json_end > json_start
        THEN Strip(Slice(response_text, json_start, json_end))
        ELSE response_text

\* Candidate with the bug of leaving the + 1 out of json_end: the last "}"
\* is cut off.
CandidateOpenEnd(response_text) ==
    LET json_start == Find(response_text, <<LBrace>>)
        json_end == RFind(response_text, <<RBrace>>)
    IN  [found |-> json_start >= 0 /\ json_end > json_start,
         json_str |-> IF json_start >= 0 /\ json_end > json_start
                      THEN Slice(response_text, json_start, json_end)
                      ELSE <<>>]

\* The text from the first "{" to the last "}", both included; found is
\* json_start >= 0 and json_end > json_start.
Candidate(response_text) ==
    LET json_start == Find(response_text, <<LBrace>>)
        json_end == RFind(response_text, <<RBrace>>) + 1
    IN  [found |-> json_start >= 0 /\ json_end > json_start,
         json_str |-> IF json_start >= 0 /\ json_end > json_start
                      THEN Slice(response_text, json_start, json_end)
                      ELSE <<>>]

\* generate_with_gemini: the dict decoded from the backend's answer, or None
\* with the error shown. backend is what generate_content and response.text
\* do: raise, or hand back a text.
generate_with_gemini(backend) ==
    IF backend.raises THEN [val |-> None, err |-> ErrGemini]
    ELSE LET c == Candidate(StripFence(Strip(backend.text)))
         IN  IF ~c.found THEN [val |-> None, err |-> ErrNoJson]
             ELSE LET decoded == json_loads(c.json_str)
                  IN  IF decoded.ok THEN [val |-> decoded.val, err |-> ""]
                      ELSE [val |-> None, err |-> ErrGemini]

\* Interpolations of the topic into the fallback's second slide.
OverviewOf(topic) == Str("Comprehensive overview of " \o topic)

\* _generate_fallback_content with the bug of a fixed title on the first
\* slide, where the topic belongs.
FallbackFixedTitle(topic, now) ==
    PresentationData(
        [i \in 1..4 |->
            SlideContent(
                Str(<<"Presentation", "Introduction & Overview", "Key Analysis & Findings",
                      "Conclusions & Next Steps">>[i]),
                List(<<Str("Data-Driven Insights")>>),
                Str("This presentation has been automatically generated"),
                None, None)],
        topic, now)

\* _generate_fallback_content
_generate_fallback_content(topic, now) ==
    PresentationData(
        << SlideContent(
               Str(topic),
               List(<<Str("AI-Generated Professional Presentation"),
                      Str("Comprehensive Analysis"),
                      Str("Data-Driven Insights")>>),
               Str("This presentation has been automatically generated"),
               List(<<Str("https://via.placeholder.com/400x300/1f497d/ffffff?text=Title+Slide")>>),
               List(<<Str("https://example.com/ai-presentations")>>)),
           SlideContent(
               Str("Introduction & Overview"),
               List(<<OverviewOf(topic),
                      Str("Key concepts and fundamental principles"),
                      Str("Current relevance and importance"),
                      Str("Presentation structure and objectives")>>),
               Str("This section provides the foundational understanding"),
               List(<<Str("https://via.placeholder.com/400x300/28a745/ffffff?text=Overview")>>),
               List(<<Str("https://example.com/introduction"),
                      Str("https://example.com/overview")>>)),
           SlideContent(
               Str("Key Analysis & Findings"),
               List(<<Str("Primary research findings and data"),
                      Str("Statistical analysis and trends"),
                      Str("Critical insights and interpretations"),
                      Str("Practical applications and use cases")>>),
               Str("Our analysis reveals significant patterns and trends"),
               List(<<Str("https://via.placeholder.com/400x300/dc3545/ffffff?text=Data+Analysis")>>),
               List(<<Str("https://example.com/research"),
                      Str("https://example.com/data-analysis")>>)),
           SlideContent(
               Str("Conclusions & Next Steps"),
               List(<<Str("Summary of critical findings"),
                      Str("Key takeaways and insights"),
                      Str("Future considerations and opportunities"),
                      Str("Recommended actions and next steps")>>),
               Str("Based on our comprehensive analysis"),
               List(<<Str("https://via.placeholder.com/400x300/6f42c1/ffffff?text=Conclusions")>>),
               List(<<Str("https://example.com/conclusions"),
                      Str("https://example.com/future-research")>>)) >>,
        topic, now)

\* One SlideContent from one element of result['slides']; only a dict has
\* .get, anything else raises AttributeError (ok = FALSE).
SlideFrom(slide_data) ==
    [ok |-> slide_data.t = "obj",
     slide |-> SlideContent(
                   DictGet(slide_data, "title", Str("")),
                   DictGet(slide_data, "bullet_points", List(<<>>)),
                   DictGet(slide_data, "additional_info", Str("")),
                   DictGet(slide_data, "image_urls", List(<<>>)),
                   DictGet(slide_data, "reference_urls", List(<<>>)))]

\* The try block of generate_presentation_content: the slides built from
\* result.get('slides', []), or a raise (ok = FALSE) when that value cannot
\* be iterated or one of its elements is no dict.
SlidesOf(result) ==
    LET seq == DictGet(result, "slides", List(<<>>))
    IN  [ok |-> Iterable(seq) /\ \A i \in 1..Len(Items(seq)) : SlideFrom(Items(seq)[i]).ok,
         slides |-> [i \in 1..Len(Items(seq)) |-> SlideFrom(Items(seq)[i]).slide]]

\* ------------------------------------------------------------------------
\* The prompt. A document text is a sequence of characters; a prompt is
\* the sequence of its pieces (fixed texts, the topic, the characters of
\* the document preview).
\* ------------------------------------------------------------------------

\* document_content[:3000]
PreviewLen == 3000

\* The fixed text that opens every prompt, told by its first sentence.
base_prompt == "You are an intelligent assistant that helps generate professional PDF presentations with rich content."

Ellipsis == <<".", ".", ".">>

\* content_preview with the bug of cutting at PreviewLen characters or more:
\* a text of exactly PreviewLen characters gets the marker.
content_preview_from(document_content) ==
    IF Len(document_content) >= PreviewLen
    THEN SubSeq(document_content, 1, PreviewLen) \o Ellipsis
    ELSE document_content

\* content_preview: the first PreviewLen characters and "..." when the text
\* is longer, else the text.
content_preview(document_content) ==
    IF Len(document_content) > PreviewLen
    THEN SubSeq(document_content, 1, PreviewLen) \o Ellipsis
    ELSE document_content

\* create_presentation_prompt
create_presentation_prompt(topic, document_content) ==
    IF document_content # <<>>
    THEN <<base_prompt, "\n\nDocument Content to Analyze:\n">>
             \o content_preview(document_content)
             \o <<"\n\nTopic: ", topic>>
    ELSE <<base_prompt, "\n\nTopic to Present: ", topic,
           "\n\nGenerate comprehensive content based on your knowledge with relevant examples, statistics, and references.">>

\* ------------------------------------------------------------------------
\* DocumentProcessor. An upload is its declared type, whether its parser
\* raises, and the text the parser reads from it.
\* ------------------------------------------------------------------------

TypePdf == "application/pdf"

TypeDocx == "application/vnd.openxmlformats-officedocument.wordprocessingml.document"

TypeTxt == "text/plain"

TypeCsv == "text/csv"

ErrReading == "Error reading file"

ErrUnsupported == "Unsupported file type"

\* The characters of "Dataset Summary:\n", the head of a CSV's summary; the
\* text of a CSV upload stands for the rest of the summary.
DatasetSummary ==
    <<"D", "a", "t", "a", "s", "e", "t", " ", "S", "u", "m", "m", "a", "r", "y", ":", "\n">>

\* str.strip() of a character sequence.
StripChars(text) ==
    IF \A i \in 1..Len(text) : text[i] \in {" ", "\n"} THEN <<>>
    ELSE SubSeq(text,
                CHOOSE i \in 1..Len(text) :
                    text[i] \notin {" ", "\n"} /\ \A j \in 1..(i - 1) : text[j] \in {" ", "\n"},
                CHOOSE i \in 1..Len(text) :
                    text[i] \notin {" ", "\n"} /\ \A j \in (i + 1)..Len(text) : text[j] \in {" ", "\n"})

\* extract_text_from_pdf, _docx, _txt, _csv: each catches its parser's
\* exception, shows it and returns "".
extract_text(file) ==
    IF file.raises THEN [text |-> <<>>, errors |-> <<ErrReading>>]
    ELSE CASE file.type \in {TypePdf, TypeDocx} ->
                  [text |-> StripChars(file.text \o <<"\n">>), errors |-> <<>>]
           [] file.type = TypeTxt ->
                  [text |-> file.text, errors |-> <<>>]
           [] OTHER ->
                  [text |-> DatasetSummary \o file.text, errors |-> <<>>]

\* process_uploaded_file with the bug of reading an upload of any other
\* type as plain text.
process_uploaded_file_any(uploaded_file) ==
    IF ~uploaded_file.present THEN [text |-> <<>>, errors |-> <<>>]
    ELSE IF uploaded_file.type \in {TypePdf, TypeDocx, TypeTxt, TypeCsv}
    THEN extract_text(uploaded_file)
    ELSE [text |-> uploaded_file.text, errors |-> <<ErrUnsupported>>]

\* process_uploaded_file
process_uploaded_file(uploaded_file) ==
    IF ~uploaded_file.present THEN [text |-> <<>>, errors |-> <<>>]
    ELSE IF uploaded_file.type \in {TypePdf, TypeDocx, TypeTxt, TypeCsv}
    THEN extract_text(uploaded_file)
    ELSE [text |-> <<>>, errors |-> <<ErrUnsupported>>]

\* ------------------------------------------------------------------------
\* Inputs: what the user types and uploads, what the backend answers
\* ------------------------------------------------------------------------

ApiKeys == {"", "KEY"}

\* The last one is blank.
Topics == {"Renewable Energy", "AI", " "}

\* topic.strip() is empty
IsBlank(topic) == topic \in {"", " "}

\* datetime.now(): the day a generation runs on.
Days == {1, 2}

NoFile == [present |-> FALSE, type |-> "", raises |-> FALSE, text |-> <<>>]

File(type, raises, text) ==
    [present |-> TRUE, type |-> type, raises |-> raises, text |-> text]

\* An upload the parser reads, one it raises on, for each supported type; a
\* PDF with no text; an image, which is no supported type.
Files ==
    {NoFile, File("image/png", FALSE, <<"p">>), File(TypePdf, FALSE, <<" ">>)}
        \cup {File(ty, FALSE, <<" ", "a", "b">>) : ty \in {TypePdf, TypeDocx, TypeTxt, TypeCsv}}
        \cup {File(ty, TRUE, <<>>) : ty \in {TypePdf, TypeDocx, TypeTxt, TypeCsv}}

\* The topics a session is driven with; the blank one keeps the Generate
\* button disabled.
SessionTopics == {"Renewable Energy", " "}

\* The uploads a session is driven with.
SessionFiles ==
    {NoFile, File("image/png", FALSE, <<"p">>), File(TypeTxt, FALSE, <<" ", "a", "b">>)}

\* A text of n characters that are no whitespace.
Text(n) == [i \in 1..n |-> IF i % 3 = 1 THEN "a" ELSE IF i % 3 = 2 THEN "b" ELSE "c"]

\* The lengths within Margin of the cut of the prompt's preview.
CutLens == (PreviewLen - Margin)..(PreviewLen + Margin)

\* Uploads whose extracted text is of a length near the cut.
LongFiles ==
    {File(ty, FALSE, Text(n)) : ty \in {TypePdf, TypeTxt}, n \in CutLens}
        \cup {File(TypeCsv, FALSE, Text(n - Len(DatasetSummary))) : n \in CutLens}

\* The document texts a direct call of generate_presentation_content gets.
Documents == {<<>>, <<"a", "b">>}

\* The text of a JSON value, as json.dumps spells it.
RECURSIVE Encode(_)
RECURSIVE EncodeItems(_, _)
EncodeItems(items, i) ==
    IF i > Len(items) THEN <<>>
    ELSE (IF items[i].t = "mem"
          THEN <<Tok("str", items[i].s), Colon, Ws>> \o Encode(items[i].a[1])
          ELSE Encode(items[i]))
         \o (IF i < Len(items) THEN <<Comma, Ws>> ELSE <<>>)
         \o EncodeItems(items, i + 1)

Encode(v) ==
    CASE v.t = "str" -> <<Tok("str", v.s)>>
      [] v.t = "num" -> <<Tok("num", v.s)>>
      [] v.t = "null" -> <<Tok("null", "null")>>
      [] v.t = "arr" -> <<LBrack>> \o EncodeItems(v.a, 1) \o <<RBrack>>
      [] OTHER -> <<LBrace>> \o EncodeItems(v.a, 1) \o <<RBrace>>

\* The elements a backend puts into `slides`: a slide with every field, one
\* with a title only, two with fields set to null, and a number.
SlideFull ==
    Dict(<<Mem("title", Str("A")),
           Mem("bullet_points", List(<<Str("x"), Str("y")>>)),
           Mem("additional_info", Str("i")),
           Mem("image_urls", List(<<Str("u"), Str("v"), Str("w")>>)),
           Mem("reference_urls", List(<<Str("r"), Str("q")>>))>>)

SlideBare == Dict(<<Mem("title", Str("B"))>>)

SlideNulls ==
    Dict(<<Mem("title", Str("C")),
           Mem("bullet_points", None),
           Mem("image_urls", None)>>)

SlideUntitled == Dict(<<Mem("title", None), Mem("additional_info", Str("j"))>>)

SlideElems == {SlideFull, SlideBare, SlideNulls, SlideUntitled, Num("1")}

\* Every sequence over S of length n.
SeqsOfLen(S, n) == [1..n -> S]

SlideArrays == UNION {SeqsOfLen(SlideElems, n) : n \in 0..MaxSlides}

\* The JSON objects a backend answers with: {"slides": [...]} for every
\* array above, and objects whose `slides` is missing or is no array.
Payloads ==
    {Dict(<<Mem("slides", List(arr))>>) : arr \in SlideArrays}
        \cup {Dict(<<>>),
              Dict(<<Mem("title", Str("A"))>>),
              Dict(<<Mem("slides", None)>>),
              Dict(<<Mem("slides", Num("1"))>>),
              Dict(<<Mem("slides", Str(""))>>),
              Dict(<<Mem("slides", Str("x"))>>),
              Dict(<<Mem("slides", Dict(<<>>))>>),
              Dict(<<Mem("slides", Dict(<<Mem("k", SlideBare)>>))>>)}

\* What stands before and after the payload in an answer. fenced: the
\* payload stands between an opening and a closing fence.
Wrap(pre, fenced, post) == [pre |-> pre, fenced |-> fenced, post |-> post]

Wraps ==
    {Wrap(<<>>, FALSE, <<>>),
     Wrap(<<Ws, Word("Here"), Ws>>, FALSE, <<Ws, Word("Done"), Ws>>),
     Wrap(<<Word("Here"), Ws>>, TRUE, <<Ws, Word("Done")>>),
     Wrap(<<Word("Set"), LBrace, Word("x"), RBrace, Ws>>, TRUE, <<Word("or"), LBrace, RBrace>>),
     Wrap(<<>>, TRUE, <<Word("see"), Fence, Word("code"), Fence>>),
     Wrap(<<Word("Set"), LBrace, Word("x"), RBrace, Ws>>, FALSE, <<>>),
     Wrap(<<>>, FALSE, <<Ws, Word("or"), LBrace, RBrace>>)}

\* The answer text: prose, the payload (fenced or bare), prose.
TextOf(w, payload) ==
    w.pre
        \o (IF w.fenced THEN FenceOpen \o <<Ws>> ELSE <<>>)
        \o Encode(payload)
        \o (IF w.fenced THEN <<Ws>> \o FenceClose ELSE <<>>)
        \o w.post

\* A backend behaviour: the call raises, or it answers with a text. shape
\* tells how the text was made: "json" (wrap and payload say of what),
\* "cut" (a payload that lost its end) or "prose" (no payload at all).
Raising ==
    [raises |-> TRUE, text |-> <<>>, shape |-> "raise",
     wrap |-> Wrap(<<>>, FALSE, <<>>), payload |-> Dict(<<>>)]

Answer(text, shape, w, payload) ==
    [raises |-> FALSE, text |-> text, shape |-> shape, wrap |-> w, payload |-> payload]

Prose(text) == Answer(text, "prose", Wrap(<<>>, FALSE, <<>>), Dict(<<>>))

CutOff(w, payload) ==
    Answer(SubSeq(TextOf(w, payload), 1, Len(TextOf(w, payload)) - Len(w.post) - 1 - (IF w.fenced THEN 2 ELSE 0)),
           "cut", w, payload)

Backends ==
    {Raising}
        \cup {Answer(TextOf(w, p), "json", w, p) : w \in Wraps, p \in Payloads}
        \cup {CutOff(w, Dict(<<Mem("slides", List(<<SlideBare>>))>>)) : w \in Wraps}
        \cup {Prose(<<>>), Prose(<<Ws, Ws>>), Prose(<<Word("Sorry")>>),
              Prose(<<RBrace, Ws, LBrace>>), Prose(FenceOpen \o FenceClose),
              Prose(<<LBrace, Tok("str", "slides"), RBrace>>)}

\* The backend behaviours a session is driven with: a raise, an apology in
\* plain prose, and bare or fenced payloads of no, one and two slides, some
\* of them with null fields, one with an element that is no slide.
Payload(arr) == Dict(<<Mem("slides", List(arr))>>)

Bare == Wrap(<<>>, FALSE, <<>>)

Fenced == Wrap(<<Word("Here"), Ws>>, TRUE, <<Ws, Word("Done")>>)

Reply(w, arr) == Answer(TextOf(w, Payload(arr)), "json", w, Payload(arr))

Replies ==
    {Raising,
     Prose(<<Word("Sorry")>>),
     Reply(Bare, <<>>),
     Reply(Bare, <<SlideNulls>>),
     Reply(Bare, <<SlideUntitled>>),
     Reply(Fenced, <<SlideBare, SlideFull>>),
     Reply(Fenced, <<SlideBare, SlideUntitled>>),
     Reply(Bare, <<SlideBare, Num("1")>>)}

\* generate_presentation_content with the bug of one retry: when the first
\* answer gives nothing the backend is asked again before the fallback.
generate_presentation_content_retry(api_key, topic, document_content, backend, now) ==
    IF api_key = ""
    THEN [presentation |-> _generate_fallback_content(topic, now),
          errors |-> <<ErrNoKey>>, prompt |-> <<>>, calls |-> 0]
    ELSE LET prompt == create_presentation_prompt(topic, document_content)
             result == generate_with_gemini(backend)
             built == SlidesOf(result.val)
         IN  IF ~Truthy(result.val)
             THEN [presentation |-> _generate_fallback_content(topic, now),
                   errors |-> IF result.err = "" THEN <<>> ELSE <<result.err, result.err>>,
                   prompt |-> prompt, calls |-> 2]
             ELSE IF built.ok
             THEN [presentation |-> PresentationData(built.slides, topic, now),
                   errors |-> <<>>, prompt |-> prompt, calls |-> 1]
             ELSE [presentation |-> _generate_fallback_content(topic, now),
                   errors |-> <<ErrParsing>>, prompt |-> prompt, calls |-> 1]

\* generate_presentation_content: the Presentation returned, the errors
\* shown, the prompt sent and the number of backend calls made.
generate_presentation_content(api_key, topic, document_content, backend, now) ==
    IF api_key = ""
    THEN [presentation |-> _generate_fallback_content(topic, now),
          errors |-> <<ErrNoKey>>, prompt |-> <<>>, calls |-> 0]
    ELSE LET prompt == create_presentation_prompt(topic, document_content)
             result == generate_with_gemini(backend)
             built == SlidesOf(result.val)
         IN  IF ~Truthy(result.val)
             THEN [presentation |-> _generate_fallback_content(topic, now),
                   errors |-> IF result.err = "" THEN <<>> ELSE <<result.err>>,
                   prompt |-> prompt, calls |-> 1]
             ELSE IF built.ok
             THEN [presentation |-> PresentationData(built.slides, topic, now),
                   errors |-> <<>>, prompt |-> prompt, calls |-> 1]
             ELSE [presentation |-> _generate_fallback_content(topic, now),
                   errors |-> <<ErrParsing>>, prompt |-> prompt, calls |-> 1]

\* ------------------------------------------------------------------------
\* EnhancedPDFGenerator: the story is the sequence of flowables handed to
\* doc.build. A flowable is [kind, style, prefix, text, path]: a Paragraph
\* shows prefix and text in a style, an Image shows the file at path (text
\* names the URL its bytes came from), a Spacer has its height as text.
\* ------------------------------------------------------------------------

Spacer(height) ==
    [kind |-> "Spacer", style |-> "", prefix |-> "", text |-> height, path |-> 0]

Paragraph(style, prefix, text) ==
    [kind |-> "Paragraph", style |-> style, prefix |-> prefix, text |-> text, path |-> 0]

Image(path, url, size) ==
    [kind |-> "Image", style |-> size, prefix |-> "", text |-> url, path |-> path]

PageBreak ==
    [kind |-> "PageBreak", style |-> "", prefix |-> "", text |-> "", path |-> 0]

\* What an f-string shows of a value.
Fmt(v) ==
    CASE v.t = "str" -> v.s
      [] v.t = "num" -> v.s
      [] v.t = "null" -> "None"
      [] OTHER -> "<repr>"

\* generated_at.strftime('%B %d, %Y')
strftime(day) == IF day = 1 THEN "November 03, 2026" ELSE "November 04, 2026"

\* One bullet paragraph for each item of a list.
Bullets(v, style) == [i \in 1..Len(Items(v)) |-> Paragraph(style, "* ", Fmt(Items(v)[i]))]

\* _create_enhanced_title_slide up to its image: the topic heading, the
\* bullet points and the additional info. Iterating a truthy value that is
\* no list, dict or str raises, and so does a Paragraph of a value that is
\* no str (ok = FALSE).
TitleHead(slide_content, presentation_data) ==
    [ok |-> /\ (Truthy(slide_content.bullet_points) => Iterable(slide_content.bullet_points))
            /\ (Truthy(slide_content.additional_info) => slide_content.additional_info.t = "str"),
     content |->
         <<Spacer("1.5"), Paragraph("TitleSlide", "", presentation_data.topic), Spacer("0.5")>>
             \o (IF Truthy(slide_content.bullet_points)
                 THEN Bullets(slide_content.bullet_points, "BulletPoint") ELSE <<>>)
             \o <<Spacer("0.3")>>
             \o (IF Truthy(slide_content.additional_info)
                 THEN <<Paragraph("AdditionalInfo", "", Fmt(slide_content.additional_info))>>
                 ELSE <<>>)
             \o <<Spacer("0.5")>>]

\* The URLs the title slide fetches: image_urls[0] when image_urls is
\* truthy; a number or a dict there raises.
TitleImages(slide_content) ==
    IF ~Truthy(slide_content.image_urls) THEN [ok |-> TRUE, urls |-> <<>>]
    ELSE [ok |-> slide_content.image_urls.t \in {"arr", "str"},
          urls |-> SubSeq(Items(slide_content.image_urls), 1, 1)]

\* The end of the title slide: the timestamp footer.
TitleTail(presentation_data) ==
    [ok |-> TRUE,
     content |-> <<Spacer("0.3"),
                   Paragraph("URLStyle", "Generated: ", strftime(presentation_data.generated_at))>>]

\* _create_enhanced_content_slide up to its images: the slide's title, the
\* bullet points, the additional info.
ContentHead(slide_content) ==
    [ok |-> slide_content.title.t = "str" /\ Iterable(slide_content.bullet_points),
     content |->
         <<Spacer("0.3"), Paragraph("SlideTitle", "", Fmt(slide_content.title)), Spacer("0.2")>>
             \o Bullets(slide_content.bullet_points, "BulletPoint")
             \o <<Spacer("0.2")>>
             \o (IF Truthy(slide_content.additional_info)
                 THEN <<Paragraph("AdditionalInfo", "<b>Additional Information:</b><br/>",
                                  Fmt(slide_content.additional_info)),
                        Spacer("0.2")>>
                 ELSE <<>>)]

\* The URLs a content slide fetches: image_urls[:2].
ContentImages(slide_content) ==
    IF ~Truthy(slide_content.image_urls) THEN [ok |-> TRUE, urls |-> <<>>]
    ELSE [ok |-> slide_content.image_urls.t \in {"arr", "str"},
          urls |-> SubSeq(Items(slide_content.image_urls), 1,
                          Min(2, Len(Items(slide_content.image_urls))))]

\* The end of a content slide: the references.
ContentTail(slide_content) ==
    IF ~Truthy(slide_content.reference_urls) THEN [ok |-> TRUE, content |-> <<>>]
    ELSE [ok |-> Iterable(slide_content.reference_urls),
          content |-> <<Spacer("0.1"),
                        Paragraph("BulletPoint", "", "<b>References & Further Reading:</b>")>>
                          \o Bullets(slide_content.reference_urls, "URLStyle")]

\* The three parts of slide i (counted from 0): slide 0 is laid out as the
\* title slide, every other one as a content slide.
SlideHead(presentation_data, i) ==
    IF i = 0 THEN TitleHead(presentation_data.slides[1], presentation_data)
    ELSE ContentHead(presentation_data.slides[i + 1])

SlideImages(presentation_data, i) ==
    IF i = 0 THEN TitleImages(presentation_data.slides[1])
    ELSE ContentImages(presentation_data.slides[i + 1])

SlideTail(presentation_data, i) ==
    IF i = 0 THEN TitleTail(presentation_data)
    ELSE ContentTail(presentation_data.slides[i + 1])

\* What follows the image in the story: a content slide adds a Spacer.
AfterImage(i) == IF i = 0 THEN <<>> ELSE <<Spacer("0.1")>>

ImageSize(i) == IF i = 0 THEN "3x2" ELSE "2.5x1.8"

\* BreakAfter with the bug of a page break after every slide, the last one
\* too.
BreakAfterEvery(i, n) == <<PageBreak>>

\* The page break after slide i of n: between two slides only.
BreakAfter(i, n) == IF i < n - 1 THEN <<PageBreak>> ELSE <<>>

\* topic.replace(' ', '_') + "_enhanced.pdf"
file_name(topic) ==
    CASE topic = "Renewable Energy" -> "Renewable_Energy_enhanced.pdf"
      [] topic = " " -> "__enhanced.pdf"
      [] OTHER -> topic \o "_enhanced.pdf"

ErrPdf == "Error generating PDF"

\* ------------------------------------------------------------------------
\* The session: main() runs from top to bottom on every interaction
\* ------------------------------------------------------------------------

VARIABLES
    api_key,            \* the API key text input
    topic,              \* the topic text input
    uploaded_file,      \* the file uploader
    document_content,   \* main's document_content in the latest run
    errors,             \* what st.error showed in the latest run
    prompt,             \* the prompt of the latest run's generation, if any
    calls,              \* backend calls made by the latest run
    backend,            \* how the backend behaved in the latest call
    returned,           \* what generate_presentation_content last returned
    session,            \* st.session_state['presentation_data']
    download,           \* the download button of the latest run
    pc,                 \* where the running handler stands
    story,              \* create_presentation's story
    slide_no,           \* create_presentation's i
    images,             \* the URLs the current slide has still to fetch
    image_path,         \* the temporary file being embedded (0: none)
    tmp_files           \* the temporary files that exist

vars ==
    <<api_key, topic, uploaded_file, document_content, errors, prompt, calls,
      backend, returned, session, download, pc, story, slide_no, images,
      image_path, tmp_files>>

inputs == <<api_key, topic, uploaded_file>>

renderer == <<story, slide_no, images, image_path>>

NoPresentation == [has |-> FALSE, data |-> PresentationData(<<>>, "", 1)]

Some(presentation) == [has |-> TRUE, data |-> presentation]

NoDownload == [has |-> FALSE, data |-> <<>>, file_name |-> ""]

NoBackend == Prose(<<>>)

Init ==
    /\ api_key = ""
    /\ topic = ""
    /\ uploaded_file = NoFile
    /\ document_content = <<>>
    /\ errors = <<>>
    /\ prompt = <<>>
    /\ calls = 0
    /\ backend = NoBackend
    /\ returned = NoPresentation
    /\ session = NoPresentation
    /\ download = NoDownload
    /\ pc = "idle"
    /\ story = <<>>
    /\ slide_no = 0
    /\ images = <<>>
    /\ image_path = 0
    /\ tmp_files = {}

\* The top of main() for the inputs (key, file): nothing is drawn without a
\* key; with one, an upload is processed anew.
Extracted(key, file) ==
    IF key = "" THEN [text |-> <<>>, errors |-> <<>>] ELSE process_uploaded_file(file)

\* A run of main() in which no button was pressed.
Rerun(key, file) ==
    /\ document_content' = Extracted(key, file).text
    /\ errors' = Extracted(key, file).errors
    /\ prompt' = <<>>
    /\ calls' = 0
    /\ download' = NoDownload
    /\ UNCHANGED <<backend, returned, session, pc, renderer, tmp_files>>

SetApiKey(key) ==
    /\ pc = "idle"
    /\ key # api_key
    /\ api_key' = key
    /\ UNCHANGED <<topic, uploaded_file>>
    /\ Rerun(key, uploaded_file)

SetTopic(t) ==
    /\ pc = "idle"
    /\ api_key # ""
    /\ t # topic
    /\ topic' = t
    /\ UNCHANGED <<api_key, uploaded_file>>
    /\ Rerun(api_key, uploaded_file)

Upload(file) ==
    /\ pc = "idle"
    /\ api_key # ""
    /\ file # uploaded_file
    /\ uploaded_file' = file
    /\ UNCHANGED <<api_key, topic>>
    /\ Rerun(api_key, file)

\* ClickGenerate with the bug of a slot written only while it is empty: the
\* first Presentation of the session is retained.
ClickGenerateOnce(b, now) ==
    /\ pc = "idle"
    /\ api_key # ""
    /\ ~IsBlank(topic)
    /\ \E text \in {Extracted(api_key, uploaded_file)} :
       \E g \in {generate_presentation_content(api_key, topic, text.text, b, now)} :
           /\ document_content' = text.text
           /\ errors' = text.errors \o g.errors
           /\ prompt' = g.prompt
           /\ calls' = g.calls
           /\ returned' = Some(g.presentation)
           /\ session' = IF session.has THEN session ELSE Some(g.presentation)
    /\ backend' = b
    /\ download' = NoDownload
    /\ UNCHANGED <<inputs, pc, renderer, tmp_files>>

\* The Generate button: generate_presentation_content runs and its result
\* goes into the session slot.
ClickGenerate(b, now) ==
    /\ pc = "idle"
    /\ api_key # ""
    /\ ~IsBlank(topic)
    /\ \E text \in {Extracted(api_key, uploaded_file)} :
       \E g \in {generate_presentation_content(api_key, topic, text.text, b, now)} :
           /\ document_content' = text.text
           /\ errors' = text.errors \o g.errors
           /\ prompt' = g.prompt
           /\ calls' = g.calls
           /\ returned' = Some(g.presentation)
           /\ session' = Some(g.presentation)
    /\ backend' = b
    /\ download' = NoDownload
    /\ UNCHANGED <<inputs, pc, renderer, tmp_files>>

\* The slide previews of main(): they iterate bullet_points, slice
\* image_urls and iterate reference_urls of every slide. When one of these
\* raises the run ends there and never reaches the Generate PDF button.
Displays(presentation_data) ==
    \A i \in 1..Len(presentation_data.slides) :
        LET slide == presentation_data.slides[i]
        IN  /\ Iterable(slide.bullet_points)
            /\ Truthy(slide.image_urls) => slide.image_urls.t \in {"arr", "str"}
            /\ Truthy(slide.reference_urls) => Iterable(slide.reference_urls)

\* The Generate PDF button: create_presentation starts on the stored
\* Presentation.
ClickGeneratePDF ==
    /\ pc = "idle"
    /\ api_key # ""
    /\ session.has
    /\ Displays(session.data)
    /\ document_content' = Extracted(api_key, uploaded_file).text
    /\ errors' = Extracted(api_key, uploaded_file).errors
    /\ prompt' = <<>>
    /\ calls' = 0
    /\ download' = NoDownload
    /\ story' = <<>>
    /\ slide_no' = 0
    /\ images' = <<>>
    /\ image_path' = 0
    /\ pc' = IF session.data.slides = <<>> THEN "build" ELSE "slide"
    /\ UNCHANGED <<inputs, backend, returned, session, tmp_files>>

\* Raise with the bug of an except that passes: nothing is shown.
RaiseSilently ==
    /\ errors' = errors
    /\ pc' = "idle"
    /\ story' = <<>>
    /\ slide_no' = 0
    /\ images' = <<>>
    /\ image_path' = 0

\* create_presentation raised: main shows the error and offers nothing.
Raise ==
    /\ errors' = Append(errors, ErrPdf)
    /\ pc' = "idle"
    /\ story' = <<>>
    /\ slide_no' = 0
    /\ images' = <<>>
    /\ image_path' = 0

\* The slide function of slide i runs up to its images.
BeginSlide ==
    /\ pc = "slide"
    /\ IF SlideHead(session.data, slide_no).ok /\ SlideImages(session.data, slide_no).ok
       THEN /\ story' = story \o SlideHead(session.data, slide_no).content
            /\ images' = SlideImages(session.data, slide_no).urls
            /\ pc' = "image"
            /\ UNCHANGED <<errors, slide_no, image_path>>
       ELSE Raise
    /\ UNCHANGED <<inputs, document_content, prompt, calls, backend, returned,
                   session, download, tmp_files>>

\* The name tempfile gives a new file: one that no file has.
FreshPath == CHOOSE n \in 1..(Cardinality(tmp_files) + 1) : n \notin tmp_files

\* download_image of the next URL. "refused": requests.get or
\* raise_for_status raises, no file is made. "broken": the stream raises
\* after the file was made. "saved": the file holds the bytes. All three
\* are caught; only "saved" returns a path.
DownloadImage(outcome) ==
    /\ pc = "image"
    /\ images # <<>>
    /\ outcome # "refused" => Head(images).t = "str" /\ Cardinality(tmp_files) < MaxTmp
    /\ tmp_files' = IF outcome = "refused" THEN tmp_files ELSE tmp_files \cup {FreshPath}
    /\ IF outcome = "saved"
       THEN /\ image_path' = FreshPath
            /\ pc' = "embed"
            /\ UNCHANGED images
       ELSE /\ images' = Tail(images)
            /\ UNCHANGED <<image_path, pc>>
    /\ UNCHANGED <<inputs, document_content, errors, prompt, calls, backend,
                   returned, session, download, story, slide_no>>

\* EmbedImage with the bug of no try/except around Image(image_path): an
\* image that does not decode ends create_presentation with its exception.
EmbedImageRaises(decodes) ==
    /\ pc = "embed"
    /\ IF decodes
       THEN /\ story' = (story \o <<Image(image_path, Head(images).s, ImageSize(slide_no))>>)
                            \o AfterImage(slide_no)
            /\ tmp_files' = tmp_files \ {image_path}
            /\ images' = Tail(images)
            /\ image_path' = 0
            /\ pc' = "image"
            /\ UNCHANGED errors
       ELSE /\ Raise
            /\ UNCHANGED tmp_files
    /\ UNCHANGED <<inputs, document_content, prompt, calls, backend, returned,
                   session, download, slide_no>>

\* Image(image_path), content.append and os.unlink inside try/except: when
\* Image raises the except swallows it and the file stays.
EmbedImage(decodes) ==
    /\ pc = "embed"
    /\ IF decodes
       THEN /\ story' = (story \o <<Image(image_path, Head(images).s, ImageSize(slide_no))>>)
                            \o AfterImage(slide_no)
            /\ tmp_files' = tmp_files \ {image_path}
       ELSE UNCHANGED <<story, tmp_files>>
    /\ images' = Tail(images)
    /\ image_path' = 0
    /\ pc' = "image"
    /\ UNCHANGED <<inputs, document_content, errors, prompt, calls, backend,
                   returned, session, download, slide_no>>

\* The slide function ends, story.extend takes its content, and the page
\* break follows unless this was the last slide.
EndSlide ==
    /\ pc = "image"
    /\ images = <<>>
    /\ IF SlideTail(session.data, slide_no).ok
       THEN /\ story' = (story \o SlideTail(session.data, slide_no).content)
                            \o BreakAfter(slide_no, Len(session.data.slides))
            /\ slide_no' = slide_no + 1
            /\ pc' = IF slide_no + 1 < Len(session.data.slides) THEN "slide" ELSE "build"
            /\ UNCHANGED <<errors, images, image_path>>
       ELSE Raise
    /\ UNCHANGED <<inputs, document_content, prompt, calls, backend, returned,
                   session, download, tmp_files>>

\* doc.build(story): the PDF is offered for download, or the exception is
\* shown.
Build(built) ==
    /\ pc = "build"
    /\ IF built
       THEN /\ download' = [has |-> TRUE, data |-> story,
                            file_name |-> file_name(session.data.topic)]
            /\ pc' = "idle"
            /\ story' = <<>>
            /\ slide_no' = 0
            /\ UNCHANGED <<errors, images, image_path>>
       ELSE /\ Raise
            /\ UNCHANGED download
    /\ UNCHANGED <<inputs, document_content, prompt, calls, backend, returned,
                   session, tmp_files>>

Next ==
    \/ \E key \in ApiKeys : SetApiKey(key)
    \/ \E t \in SessionTopics : SetTopic(t)
    \/ \E file \in SessionFiles : Upload(file)
    \/ \E b \in Replies, now \in Days : ClickGenerate(b, now)
    \/ ClickGeneratePDF
    \/ BeginSlide
    \/ \E outcome \in {"refused", "broken", "saved"} : DownloadImage(outcome)
    \/ \E decodes \in BOOLEAN : EmbedImage(decodes)
    \/ EndSlide
    \/ \E built \in BOOLEAN : Build(built)

Spec == Init /\ [][Next]_vars

\* ------------------------------------------------------------------------
\* generate_presentation_content called on its own: any key, topic, document
\* text and backend behaviour
\* ------------------------------------------------------------------------

Generate(key, t, doc, b, now) ==
    /\ pc = "idle"
    /\ \E g \in {generate_presentation_content(key, t, doc, b, now)} :
           /\ errors' = g.errors
           /\ prompt' = g.prompt
           /\ calls' = g.calls
           /\ returned' = Some(g.presentation)
    /\ api_key' = key
    /\ topic' = t
    /\ document_content' = doc
    /\ backend' = b
    /\ pc' = "returned"
    /\ UNCHANGED <<uploaded_file, session, download, renderer, tmp_files>>

NextGen ==
    \E key \in ApiKeys, t \in Topics, doc \in Documents, b \in Backends, now \in Days :
        Generate(key, t, doc, b, now)

SpecGen == Init /\ [][NextGen]_vars

\* ------------------------------------------------------------------------
\* The way of an upload into the prompt: process_uploaded_file, then
\* create_presentation_prompt on the text it returned
\* ------------------------------------------------------------------------

ProcessUpload(file) ==
    /\ pc = "idle"
    /\ uploaded_file' = file
    /\ document_content' = process_uploaded_file(file).text
    /\ errors' = process_uploaded_file(file).errors
    /\ pc' = "processed"
    /\ UNCHANGED <<api_key, topic, prompt, calls, backend, returned, session,
                   download, renderer, tmp_files>>

BuildPrompt(t) ==
    /\ pc = "processed"
    /\ topic' = t
    /\ prompt' = create_presentation_prompt(t, document_content)
    /\ pc' = "prompted"
    /\ UNCHANGED <<api_key, uploaded_file, document_content, errors, calls, backend,
                   returned, session, download, renderer, tmp_files>>

NextPrompt ==
    \/ \E file \in Files \cup LongFiles : ProcessUpload(file)
    \/ \E t \in Topics : BuildPrompt(t)

SpecPrompt == Init /\ [][NextPrompt]_vars

\* ------------------------------------------------------------------------
\* Properties of generate_presentation_content (checked under SpecGen)
\* ------------------------------------------------------------------------

TitlesOf(presentation_data) ==
    [i \in 1..Len(presentation_data.slides) |-> presentation_data.slides[i].title]

FallbackTitles(t) ==
    <<Str(t), Str("Introduction & Overview"), Str("Key Analysis & Findings"),
      Str("Conclusions & Next Steps")>>

\* The fixed fallback for topic t, told by its four titles and its topic.
IsFallback(presentation_data, t) ==
    /\ TitlesOf(presentation_data) = FallbackTitles(t)
    /\ presentation_data.topic = t

\* The text json.loads is given for the backend's answer, and what it
\* decodes to.
CandidateOf(b) == Candidate(StripFence(Strip(b.text)))

\* C1: for every backend behaviour and every topic,
\* generate_presentation_content returns a Presentation, and that
\* Presentation has at least one slide.
C1_AtLeastOneSlide ==
    pc = "returned" => returned.has /\ Len(returned.data.slides) >= 1

\* A call that returned a Presentation decoded from {"slides": []}: it has
\* no slide.
C1_EmptySlidesReturned ==
    /\ pc = "returned"
    /\ calls = 1
    /\ backend.shape = "json"
    /\ backend.wrap = Bare
    /\ backend.payload = Payload(<<>>)
    /\ returned.has
    /\ returned.data.slides = <<>>

\* The backend raised, or answered with nothing, or with a text whose
\* candidate does not decode.
AnswerUnusable(b) ==
    \/ b.raises
    \/ Strip(b.text) = <<>>
    \/ CandidateOf(b).found /\ ~json_loads(CandidateOf(b).json_str).ok

\* C2: whenever the backend call raises, or its response is empty, or the
\* candidate text fails to decode as JSON, generate_presentation_content
\* returns the fallback: four slides titled the topic, "Introduction &
\* Overview", "Key Analysis & Findings", "Conclusions & Next Steps", and the
\* topic is the requested one.
C2_FallbackWhenUnusable ==
    pc = "returned" /\ calls = 1 /\ AnswerUnusable(backend) =>
        /\ returned.has
        /\ Len(returned.data.slides) = 4
        /\ IsFallback(returned.data, topic)

\* A call whose answer lost its end came back with the fallback.
C2_CutAnswerFellBack ==
    /\ pc = "returned"
    /\ calls = 1
    /\ backend.shape = "cut"
    /\ AnswerUnusable(backend)
    /\ topic = "Renewable Energy"
    /\ IsFallback(returned.data, topic)

\* C3: when the answer decodes to an object with no `slides` sequence the
\* fallback is returned; a Presentation that is not the fallback holds one
\* slide for every element of the decoded `slides` sequence.
C3_NoSlidesMeansFallback ==
    pc = "returned" /\ calls = 1 /\ ~backend.raises /\ CandidateOf(backend).found =>
        LET decoded == json_loads(CandidateOf(backend).json_str)
            seq == DictGet(decoded.val, "slides", None)
        IN  decoded.ok /\ decoded.val.t = "obj" =>
                /\ seq.t # "arr" => IsFallback(returned.data, topic)
                /\ ~IsFallback(returned.data, topic) =>
                       seq.t = "arr" /\ Len(returned.data.slides) = Len(seq.a)

\* A call answered with {"title": "A"} returned a Presentation of no slide
\* in place of the fallback.
C3_NoSlidesKeyNoFallback ==
    /\ pc = "returned"
    /\ calls = 1
    /\ backend.shape = "json"
    /\ backend.wrap = Bare
    /\ backend.payload = Dict(<<Mem("title", Str("A"))>>)
    /\ returned.data.slides = <<>>
    /\ ~IsFallback(returned.data, topic)

\* A payload {"slides": [...]} whose elements are all objects.
SlideObjects(payload) ==
    /\ Len(payload.a) = 1
    /\ payload.a[1].s = "slides"
    /\ payload.a[1].a[1].t = "arr"
    /\ \A i \in 1..Len(payload.a[1].a[1].a) : payload.a[1].a[1].a[i].t = "obj"

ElementsOf(payload) == payload.a[1].a[1].a

\* The prose around the payload holds no brace.
ProseWithoutBraces(w) ==
    /\ \A k \in 1..Len(w.pre) : w.pre[k] \notin {LBrace, RBrace}
    /\ \A k \in 1..Len(w.post) : w.post[k] \notin {LBrace, RBrace}

\* A slide carries what its element spells: a member that is there and not
\* null as it is, an empty string or list for a member that is not there.
Corresponds(slide, element) ==
    \A key \in {"title", "bullet_points", "additional_info", "image_urls", "reference_urls"} :
        LET at == {m \in 1..Len(element.a) : element.a[m].s = key}
            empty == IF key \in {"title", "additional_info"} THEN Str("") ELSE List(<<>>)
        IN  IF at = {} THEN slide[key] = empty
            ELSE \A m \in at : element.a[m].a[1] # None => slide[key] = element.a[m].a[1]

\* The slides returned are, one for one and in order, the elements of the
\* payload's `slides`.
SlidesFollowPayload ==
    /\ CandidateOf(backend).found
    /\ ~IsFallback(returned.data, topic)
    /\ Len(returned.data.slides) = Len(ElementsOf(backend.payload))
    /\ \A i \in 1..Len(returned.data.slides) :
           Corresponds(returned.data.slides[i], ElementsOf(backend.payload)[i])

C5_NoNullField ==
    pc = "returned" =>
        \A i \in 1..Len(returned.data.slides) :
            /\ returned.data.slides[i].title.t = "str"
            /\ returned.data.slides[i].additional_info.t = "str"
            /\ returned.data.slides[i].bullet_points.t = "arr"
            /\ returned.data.slides[i].image_urls.t = "arr"
            /\ returned.data.slides[i].reference_urls.t = "arr"

\* A returned slide whose bullet_points is None: its element spelled null.
C5_NullBulletPoints ==
    /\ pc = "returned"
    /\ calls = 1
    /\ backend.shape = "json"
    /\ backend.payload = Payload(<<SlideNulls>>)
    /\ Len(returned.data.slides) = 1
    /\ returned.data.slides[1].bullet_points = None

\* ------------------------------------------------------------------------
\* Properties of the upload's way into the prompt (checked under SpecPrompt)
\* ------------------------------------------------------------------------

\* C6: for a non-empty document text the prompt embeds exactly its first
\* min(len, 3000) characters, followed by "..." if and only if the text is
\* longer than 3000 characters; the prompt is told by topic and text alone.
C6_PreviewIsFirst3000 ==
    pc = "prompted" /\ document_content # <<>> =>
        prompt = (<<base_prompt, "\n\nDocument Content to Analyze:\n">>
                      \o SubSeq(document_content, 1, Min(Len(document_content), 3000)))
                      \o (IF Len(document_content) > 3000 THEN <<".", ".", ".">> ELSE <<>>)
                      \o <<"\n\nTopic: ", topic>>

\* A prompt built for a text of 3001 characters: it ends the preview with
\* the marker after the 3000th character.
C6_LongTextCut ==
    /\ pc = "prompted"
    /\ Len(document_content) = 3001
    /\ Len(prompt) = 3007
    /\ prompt[3002] = document_content[3000]
    /\ SubSeq(prompt, 3003, 3005) = <<".", ".", ".">>

\* An upload of an unsupported type, or of a supported type whose parser
\* raises.
Unreadable(file) ==
    /\ file.present
    /\ file.type \notin {"application/pdf",
                         "application/vnd.openxmlformats-officedocument.wordprocessingml.document",
                         "text/plain", "text/csv"}
           \/ file.raises

\* C7: for an upload of an unsupported type, and for one whose parser
\* raises, process_uploaded_file shows an error and returns the empty
\* string, and the prompt then built is the prompt built for the same topic
\* with no upload.
C7_UnreadableUploadIsNoDocument ==
    pc \in {"processed", "prompted"} /\ Unreadable(uploaded_file) =>
        /\ errors # <<>>
        /\ document_content = <<>>
        /\ pc = "prompted" =>
               prompt = create_presentation_prompt(topic, process_uploaded_file(NoFile).text)

\* A prompt built after an image was uploaded.
C7_ImageUploadedAndPrompted ==
    /\ pc = "prompted"
    /\ uploaded_file.type = "image/png"
    /\ errors = <<ErrUnsupported>>
    /\ topic = "Renewable Energy"
    /\ prompt[2] = "\n\nTopic to Present: "

\* ------------------------------------------------------------------------
\* Properties of create_presentation in a session (checked under Spec)
\* ------------------------------------------------------------------------

\* The places of a story where a slide's heading stands, and where a page
\* break stands.
Heads(s) ==
    {k \in 1..Len(s) : s[k].kind = "Paragraph" /\ s[k].style \in {"TitleSlide", "SlideTitle"}}

Breaks(s) == {k \in 1..Len(s) : s[k].kind = "PageBreak"}

\* C8: the story built for a Presentation of N >= 1 slides holds the N
\* slides in order with exactly N-1 page breaks, one between every two
\* consecutive slides, none before the first and none after the last; the
\* first slide is laid out as the title slide, every other one as a content
\* slide.
C8_BreaksBetweenSlides ==
    download.has /\ session.data.slides # <<>> =>
        LET s == download.data
            n == Len(session.data.slides)
        IN  /\ Cardinality(Heads(s)) = n
            /\ Cardinality(Breaks(s)) = n - 1
            /\ s[Len(s)].kind # "PageBreak"
            /\ \A b \in Breaks(s) : \E h \in Heads(s) : h < b
            /\ \A i \in 1..n :
                   LET h == Kth(Heads(s), i)
                   IN  /\ s[h].style = IF i = 1 THEN "TitleSlide" ELSE "SlideTitle"
                       /\ i > 1 => s[h].text = Fmt(session.data.slides[i].title)
                       /\ i < n => Cardinality({b \in Breaks(s) : h < b /\ b < Kth(Heads(s), i + 1)}) = 1

\* The fallback's four slides were built into a story with three breaks.
C8_FourSlidesThreeBreaks ==
    /\ download.has
    /\ Len(session.data.slides) = 4
    /\ Cardinality(Breaks(download.data)) = 3
    /\ download.data[2].style = "TitleSlide"

\* C9: the title of every slide, the first one included, stands in the
\* story built by create_presentation.
C9_EveryTitleShown ==
    download.has =>
        \A i \in 1..Len(session.data.slides) :
            \E k \in 1..Len(download.data) :
                /\ download.data[k].kind = "Paragraph"
                /\ download.data[k].text = Fmt(session.data.slides[i].title)

\* A story built for slides titled "B" and "A": no paragraph of it says "B".
C9_FirstTitleMissing ==
    /\ download.has
    /\ TitlesOf(session.data) = <<Str("B"), Str("A")>>
    /\ \A k \in 1..Len(download.data) : download.data[k].text # "B"
    /\ \E k \in 1..Len(download.data) : download.data[k].text = "A"

\* A story without its images and the Spacer a content slide puts after
\* each of them.
RECURSIVE WithoutImages(_)
WithoutImages(s) ==
    IF s = <<>> THEN <<>>
    ELSE IF Head(s).kind = "Image"
    THEN WithoutImages(IF Head(s).style = "2.5x1.8" THEN Tail(Tail(s)) ELSE Tail(s))
    ELSE <<Head(s)>> \o WithoutImages(Tail(s))

\* All that the slides from slide i on show apart from images.
RECURSIVE RestFrom(_, _)
RestFrom(presentation_data, i) ==
    IF i >= Len(presentation_data.slides) THEN <<>>
    ELSE SlideHead(presentation_data, i).content
             \o SlideTail(presentation_data, i).content
             \o BreakAfter(i, Len(presentation_data.slides))
             \o RestFrom(presentation_data, i + 1)

\* C10: an image that fails to download or to embed is left out and nothing
\* else: the step shows no error and leaves create_presentation running on
\* the images that follow, and the story built holds, apart from images,
\* all of every slide.
C10_ImageFailureAbsorbed ==
    /\ [](download.has => WithoutImages(download.data) = RestFrom(session.data, 0))
    /\ [][pc = "embed" \/ (pc = "image" /\ images # <<>>) =>
              /\ errors' = errors
              /\ pc' \in {"image", "embed"}
              /\ images' = Tail(images) \/ (pc' = "embed" /\ images' = images)
              /\ story' = story \/ (pc = "embed" /\ SubSeq(story', 1, Len(story)) = story)]_vars

\* A story built for a content slide with images "u", "v", "w": "u" is left
\* out, "v" is in, and the references that follow are shown.
C10_SecondImageAfterLostFirst ==
    /\ download.has
    /\ TitlesOf(session.data) = <<Str("B"), Str("A")>>
    /\ {download.data[k].text : k \in {k \in 1..Len(download.data) : download.data[k].kind = "Image"}} = {"v"}
    /\ \E k \in 1..Len(download.data) :
           download.data[k].style = "URLStyle" /\ download.data[k].text = "q"

\* C11: when create_presentation raises, the error is shown, no download is
\* offered for that render, the run of main() ends as any other (the
\* session goes on), and the session slot is left as it was, so that the
\* Generate PDF button can be pressed again. A render ends in one of two
\* ways only: a download and no error, or the error and no download.
C11_RenderFailureShown ==
    /\ [][pc # "idle" /\ pc' = "idle" =>
              /\ session' = session
              /\ \/ download'.has /\ errors' = errors
                 \/ ~download'.has /\ errors' = Append(errors, ErrPdf)]_vars
    /\ [](pc = "idle" /\ errors # <<>> /\ errors[Len(errors)] = ErrPdf =>
              /\ ~download.has
              /\ session.has
              /\ ENABLED ClickGeneratePDF)

\* A render of the slides "B" and one with no title ended with the error:
\* the second slide's heading raised.
C11_SecondSlideRaised ==
    /\ pc = "idle"
    /\ errors # <<>>
    /\ errors[Len(errors)] = ErrPdf
    /\ TitlesOf(session.data) = <<Str("B"), None>>
    /\ ~download.has

\* C12: at every moment of a session the slot holds exactly what the most
\* recent generate_presentation_content call returned (nothing before the
\* first call). The slot changes only in the step of a generation request,
\* the one step that leaves the backend call counted, and then to that
\* call's result, parsed or fallback; no render step changes it.
C12_SlotIsLatestGeneration ==
    /\ [](session = returned)
    /\ [][/\ session' # session => calls' = 1 /\ pc = "idle" /\ session' = returned'
          /\ pc # "idle" \/ pc' # "idle" => session' = session]_vars

\* A generation request made after a render that lost a temporary file (so
\* after the generation that render drew) and answered by a raising backend:
\* the slot holds its fallback, not the earlier Presentation with images.
C12_FallbackReplacedRendered ==
    /\ pc = "idle"
    /\ calls = 1
    /\ backend.raises
    /\ tmp_files # {}
    /\ session.has
    /\ IsFallback(session.data, topic)
    /\ session = returned

\* The file of a successful download exists exactly while its embedding
\* step is pending, no image is fetched meanwhile, and the embedding step
\* that puts the image into the story deletes the file in that same step.
C13_DeletedAfterEmbedding ==
    /\ [](/\ pc = "embed" <=> image_path # 0
          /\ image_path # 0 => image_path \in tmp_files)
    /\ [][pc = "embed" =>
              /\ pc' # "embed"
              /\ story' # story => tmp_files' = tmp_files \ {image_path}]_vars

\* No step leaves a new temporary file other than in the hands of an
\* embedding step, so a file that stays is one whose embedding step failed.
C13_LeftOnlyByFailedEmbedding ==
    [][tmp_files' \ tmp_files # {} =>
           /\ pc' = "embed"
           /\ tmp_files' \ tmp_files = {image_path'}]_vars

\* C13: a temporary image file is deleted right after its own embedding step
\* succeeds and before the next image is fetched, so at most one file of a
\* successful path exists at any time; a file made by a render remains only
\* if the embedding step for that image failed.
C13_TempFilesReleased ==
    /\ C13_DeletedAfterEmbedding
    /\ C13_LeftOnlyByFailedEmbedding

\* C14: a generation request calls the backend at most once. With no API key
\* it is not called at all, no prompt is built, and the fallback is
\* returned; with a key it is called exactly once, and when that call raises
\* or its answer gives no usable JSON object the fallback is returned with
\* no second call.
C14_BackendCalledAtMostOnce ==
    pc = "returned" =>
        /\ calls <= 1
        /\ api_key = "" =>
               calls = 0 /\ prompt = <<>> /\ IsFallback(returned.data, topic)
        /\ api_key # "" => calls = 1
        /\ api_key # "" /\ AnswerUnusable(backend) =>
               calls = 1 /\ IsFallback(returned.data, topic)

\* A request with a key whose one backend call raised: the fallback came
\* back and the error of that one call is all that was shown.
C14_OneCallThenFallback ==
    /\ pc = "returned"
    /\ api_key # ""
    /\ backend.raises
    /\ calls = 1
    /\ errors = <<ErrGemini>>
    /\ IsFallback(returned.data, topic)

====
